---- MODULE Spec2Model ----
(***************************************************************************)
(* RightAnglePhoto: the pose-guidance core of the App component            *)
(* (template selection and analysis cache, guidance effect), the           *)
(* usePoseLandmarker hook (detector initialisation and the throttled       *)
(* animation-frame detection loop), the CameraView video plumbing that     *)
(* feeds it, the image-analysis helpers of poseUtils, the guidance         *)
(* messages and the photo capture.                                         *)
(*                                                                         *)
(* React is modelled at the granularity of its callbacks: one action is    *)
(* one event handler, timer callback, animation-frame callback or promise  *)
(* continuation, together with the commit it causes, i.e. the effects      *)
(* whose dependency arrays changed (LoopEffect, GuidanceEffect).           *)
(* A nullable value is the empty sequence Null or a one-element sequence.  *)
(***************************************************************************)
EXTENDS Integers, FiniteSets, Sequences, Bags, TLC

\* ------------------------------------------------------------------ bounds
NumTemplates == 2      \* templates offered by the pose selector
MaxAnalyses  == 2      \* analyzeImagePose calls in flight at one time
NumPoses     == 2      \* distinct skeletons the video detector can report
MaxCoord     == 2      \* shoulder positions lie on the grid 0..MaxCoord squared
NumKeys      == 2      \* key landmarks that vary in a pose comparison
MaxStep      == 2      \* landmark positions compared: steps along one line
MaxFrames    == 3      \* clock horizon, in frame intervals
MaxNoseStep  == 10     \* nose heights examined, in steps of 0.05
MaxPhotos    == 1      \* photos taken in one session

Null == <<>>
Some(x) == <<x>>

Templates == 1..NumTemplates
Poses == 1..NumPoses

\* ------------------------------------------------------ template assets
\* poseTemplates[0] is the template selected at mount.
InitialTemplateId == 1

ImagePath(t) == <<"poses", t>>

\* The static normalizedPose literal of template t, and the pose that
\* normalizePose yields for the landmarks detected in t's reference image.
DefaultPose(t) == [of |-> t, kind |-> "default"]
AnalyzedPose(t) == [of |-> t, kind |-> "analyzed"]

poseTemplates(t) ==
    [id |-> t, keyLandmarks |-> t, imagePath |-> ImagePath(t),
     normalizedPose |-> DefaultPose(t)]

\* What analyzeImagePose resolves to when a pose is found in the image of t.
AnalysisResult(t) ==
    [landmarks |-> <<"landmarks", t>>, normalizedPose |-> AnalyzedPose(t)]

\* { ...template, normalizedPose: entry.normalizedPose }
WithPose(template, pose) == [template EXCEPT !.normalizedPose = pose]

\* ------------------------------------------------------------- throttle
TargetFpsMobile == 8
TargetFpsDesktop == 12

\* A window this narrow or narrower makes the device count as mobile.
MobileMaxWidth == 768

VARIABLES
    \* App state
    view, selectedTemplate, selectedTemplateImage, templateLandmarks,
    isAnalyzingTemplate, guidance, viewportSize, videoElement,
    \* module state of App and poseUtils
    templateAnalysisCache, cachedImageLandmarker, isInitializingLandmarker,
    \* in-flight asynchronous work
    initialTimer, analyses, cameraStage, orphanPlay,
    \* usePoseLandmarker
    landmarker, isLoading, error, latestDetection, hasPerson,
    lastFrameTimeRef, animationFrameRef, rafQueue,
    \* photo capture: the shutter lock, the photos taken, and the capture
    \* whose encoding or saving is under way
    isCapturing, photos, capture,
    \* environment
    isMobile, now,
    \* history: whether latestDetection predates the last deactivation,
    \* the time of the last detectForVideo call, and the path the last call of
    \* handleTemplateSelect took
    staleDetection, lastDetectAt, lastSelect,
    \* history: whether a detection has replaced an earlier skeleton
    skeletonReplaced,
    \* the call of a poseUtils function under examination: its name, its
    \* arguments and, once it has returned, its result
    call

appVars == <<view, selectedTemplate, selectedTemplateImage, templateLandmarks,
             isAnalyzingTemplate, guidance, viewportSize, videoElement>>
moduleVars == <<templateAnalysisCache, cachedImageLandmarker,
                isInitializingLandmarker>>
asyncVars == <<initialTimer, analyses, cameraStage, orphanPlay>>
hookVars == <<landmarker, isLoading, error, latestDetection, hasPerson,
              lastFrameTimeRef, animationFrameRef, rafQueue>>
envVars == <<isMobile, now>>
captureVars == <<isCapturing, photos, capture>>
histVars == <<staleDetection, lastDetectAt, lastSelect, skeletonReplaced>>
vars == <<appVars, moduleVars, asyncVars, hookVars, envVars, histVars,
          captureVars, call,
                   captureVars>>

\* Everything but the poseUtils call under examination.
programVars == <<appVars, moduleVars, asyncVars, hookVars, envVars, histVars,
                 captureVars>>

templateVars == <<selectedTemplate, selectedTemplateImage, templateLandmarks,
                  isAnalyzingTemplate, templateAnalysisCache,
                  cachedImageLandmarker, isInitializingLandmarker, analyses>>
loopVars == <<latestDetection, hasPerson, lastFrameTimeRef, now, lastDetectAt,
              staleDetection, skeletonReplaced>>
cameraVars == <<cameraStage, orphanPlay>>
landmarkerVars == <<landmarker, isLoading, error>>

\* Window sizes the browser can report.
Viewports == {[width |-> 1000, height |-> 2000], [width |-> 400, height |-> 800]}

\* ------------------------------------------------------------------ Init
\* No poseUtils function is under examination.
NoCall == [fn |-> "none", args |-> <<>>, result |-> Null]

ProgramInit ==
    /\ view = "camera"
    /\ selectedTemplate = poseTemplates(InitialTemplateId)
    /\ selectedTemplateImage = Some(ImagePath(InitialTemplateId))
    /\ templateLandmarks = Null
    /\ isAnalyzingTemplate = FALSE
    /\ guidance = Null
    /\ viewportSize \in Viewports
    /\ videoElement = Null
    /\ templateAnalysisCache = <<>>
    /\ cachedImageLandmarker = FALSE
    /\ isInitializingLandmarker = FALSE
    /\ initialTimer = "pending"
    /\ analyses = EmptyBag
    /\ cameraStage = "starting"
    /\ orphanPlay = FALSE
    /\ landmarker = FALSE
    /\ isLoading = TRUE
    /\ error = FALSE
    /\ latestDetection = Null
    /\ hasPerson = FALSE
    /\ lastFrameTimeRef = 0
    /\ animationFrameRef = 0
    /\ rafQueue = {}
    /\ isMobile \in BOOLEAN
    /\ viewportSize.width <= MobileMaxWidth => isMobile
    /\ now = 0
    /\ staleDetection = FALSE
    /\ skeletonReplaced = FALSE
    /\ lastSelect = [template |-> 0, path |-> "none"]
    /\ lastDetectAt = Null
    /\ isCapturing = FALSE
    /\ photos = <<>>
    /\ capture = Null

Init == ProgramInit /\ call = NoCall

\* ------------------------------------------------ effects run at commit
\* GuidanceDeps as it would be with viewportSize left out of the array.
GuidanceDepsNoViewport == <<latestDetection, videoElement, selectedTemplate>>

\* Dependency array of the guidance effect.
GuidanceDeps == <<latestDetection, videoElement, selectedTemplate, viewportSize>>

\* The four metrics are kept as the inputs they are computed from; `from'
\* records the detection that supplied the landmarks.
ComputeGuidance(det, template, vp) ==
    [centerOffset |-> <<det.landmarks, vp.width>>,
     distance |-> <<det.landmarks, vp.height>>,
     tilt |-> det.landmarks,
     poseMatch |-> <<det.landmarks, template.normalizedPose, template.keyLandmarks>>,
     from |-> det]

\* GuidanceEffect as it would be if a missing input returned without
\* setGuidance(null).
GuidanceEffectNoReset ==
    guidance' =
        IF GuidanceDeps' = GuidanceDeps THEN guidance
        ELSE IF latestDetection' = Null \/ videoElement' = Null THEN guidance
        ELSE Some(ComputeGuidance(latestDetection'[1], selectedTemplate', viewportSize'))

GuidanceEffect ==
    guidance' =
        IF GuidanceDeps' = GuidanceDeps THEN guidance
        ELSE IF latestDetection' = Null \/ videoElement' = Null THEN Null
        ELSE Some(ComputeGuidance(latestDetection'[1], selectedTemplate', viewportSize'))

\* requestAnimationFrame handles: the smallest handle not held by a
\* callback still in the queue.
FreshId(queue) ==
    CHOOSE i \in 1..(Cardinality(queue) + 1) : \A cb \in queue : cb.id # i

\* A scheduled detectPose callback with the values its closure captured.
Callback(id, lm, video, active) ==
    [id |-> id, landmarker |-> lm, videoElement |-> video, isActive |-> active]

\* Dependencies of detectPose and of the start/stop effect.
LoopDeps == <<view = "camera", landmarker, videoElement>>

\* LoopEffect as it would be if the cleanup did not cancel the pending frame.
LoopEffectNoCancel ==
    IF LoopDeps' = LoopDeps
    THEN UNCHANGED <<animationFrameRef, rafQueue>>
    ELSE IF view' = "camera" /\ landmarker' /\ videoElement' # Null
         THEN /\ rafQueue' = rafQueue \cup
                    {Callback(FreshId(rafQueue), landmarker', videoElement', TRUE)}
              /\ animationFrameRef' = FreshId(rafQueue)
         ELSE /\ rafQueue' = rafQueue
              /\ animationFrameRef' = 0

\* LoopEffect as it would be if the pending frame were cancelled only when
\* the loop stops, not when it restarts with new dependencies.
LoopEffectCancelOnStop ==
    IF LoopDeps' = LoopDeps
    THEN UNCHANGED <<animationFrameRef, rafQueue>>
    ELSE LET cleaned == IF animationFrameRef # 0
                        THEN {cb \in rafQueue : cb.id # animationFrameRef}
                        ELSE rafQueue
         IN  IF view' = "camera" /\ landmarker' /\ videoElement' # Null
             THEN /\ rafQueue' = rafQueue \cup
                        {Callback(FreshId(rafQueue), landmarker', videoElement', TRUE)}
                  /\ animationFrameRef' = FreshId(rafQueue)
             ELSE /\ rafQueue' = cleaned
                  /\ animationFrameRef' = 0

\* Start/stop effect: cleanup of the previous run, then the new run.
LoopEffect ==
    IF LoopDeps' = LoopDeps
    THEN UNCHANGED <<animationFrameRef, rafQueue>>
    ELSE LET cleaned == IF animationFrameRef # 0
                        THEN {cb \in rafQueue : cb.id # animationFrameRef}
                        ELSE rafQueue
         IN  IF view' = "camera" /\ landmarker' /\ videoElement' # Null
             THEN /\ rafQueue' = cleaned \cup
                        {Callback(FreshId(cleaned), landmarker', videoElement', TRUE)}
                  /\ animationFrameRef' = FreshId(cleaned)
             ELSE /\ rafQueue' = cleaned
                  /\ animationFrameRef' = 0

Commit == LoopEffect /\ GuidanceEffect

\* -------------------------------------------------- template analysis
\* analyses is the bag of analyzeImagePose calls that have not settled; each
\* holds the template it was called for, its caller and where it is suspended.
InFlight == BagToSet(analyses)

One(a) == SetToBag({a})

\* NewAnalysis as it would be if getImageLandmarker did not look at
\* isInitializingLandmarker.
NewAnalysisNoJoin(t, origin) ==
    [template |-> t, origin |-> origin,
     pc |-> IF cachedImageLandmarker THEN "loadImage" ELSE "init"]

\* analyzeImagePose up to its first suspension: getImageLandmarker either
\* returns the cached instance, joins a running initialisation by polling,
\* or starts the initialisation itself.
NewAnalysis(t, origin) ==
    [template |-> t, origin |-> origin,
     pc |-> IF cachedImageLandmarker THEN "loadImage"
            ELSE IF isInitializingLandmarker THEN "poll" ELSE "init"]

StartAnalysis(t, origin) ==
    /\ BagCardinality(analyses) < MaxAnalyses
    /\ analyses' = analyses (+) One(NewAnalysis(t, origin))
    /\ isInitializingLandmarker' = (isInitializingLandmarker \/ ~cachedImageLandmarker)
    /\ UNCHANGED cachedImageLandmarker

\* CachePut as it would be if each store rebuilt the map around the new entry.
CachePutFresh(t, result) ==
    [u \in {t} |-> [landmarks |-> result.landmarks,
                    normalizedPose |-> result.normalizedPose]]

CachePut(t, result) ==
    [u \in DOMAIN templateAnalysisCache \cup {t} |->
        IF u = t THEN [landmarks |-> result.landmarks,
                       normalizedPose |-> result.normalizedPose]
        ELSE templateAnalysisCache[u]]

\* Initial-template effect: the mount timer's callback.
InitialTimerFires ==
    /\ initialTimer = "pending"
    /\ initialTimer' = "fired"
    /\ IF InitialTemplateId \in DOMAIN templateAnalysisCache
       THEN /\ selectedTemplate' =
                 WithPose(poseTemplates(InitialTemplateId),
                          templateAnalysisCache[InitialTemplateId].normalizedPose)
            /\ templateLandmarks' =
                 Some(templateAnalysisCache[InitialTemplateId].landmarks)
            /\ UNCHANGED <<isAnalyzingTemplate, analyses, isInitializingLandmarker,
                           cachedImageLandmarker>>
       ELSE /\ isAnalyzingTemplate' = TRUE
            /\ StartAnalysis(InitialTemplateId, "initial")
            /\ UNCHANGED <<selectedTemplate, templateLandmarks>>
    /\ UNCHANGED <<view, selectedTemplateImage, viewportSize, videoElement,
                   templateAnalysisCache, cameraVars, landmarkerVars, loopVars,
                   isMobile, lastSelect, call,
                   captureVars>>
    /\ Commit

\* handleTemplateSelect, cache hit: the cached pose replaces the template's.
SelectCached(t) ==
    /\ selectedTemplate' =
         WithPose(poseTemplates(t), templateAnalysisCache[t].normalizedPose)
    /\ templateLandmarks' = Some(templateAnalysisCache[t].landmarks)
    /\ UNCHANGED <<isAnalyzingTemplate, analyses, isInitializingLandmarker,
                   cachedImageLandmarker>>

\* SelectAndAnalyze as it would be if the selection kept the previous
\* reference pose until the analysis completed.
SelectAndAnalyzeKeepingPose(t) ==
    /\ selectedTemplate' = WithPose(poseTemplates(t), selectedTemplate.normalizedPose)
    /\ isAnalyzingTemplate' = TRUE
    /\ StartAnalysis(t, "select")
    /\ UNCHANGED templateLandmarks

\* handleTemplateSelect, cache miss: the template as passed in is selected
\* and its analysis starts.
SelectAndAnalyze(t) ==
    /\ selectedTemplate' = poseTemplates(t)
    /\ isAnalyzingTemplate' = TRUE
    /\ StartAnalysis(t, "select")
    /\ UNCHANGED templateLandmarks

\* handleTemplateSelect up to its await; the pose selector and the pose
\* gallery exist in the camera view only.
handleTemplateSelect(t) ==
    /\ view = "camera"
    /\ IF isAnalyzingTemplate
       THEN /\ lastSelect' = [template |-> t, path |-> "ignored"]
            /\ UNCHANGED templateVars
       ELSE /\ selectedTemplateImage' = Some(poseTemplates(t).imagePath)
            /\ UNCHANGED templateAnalysisCache
            /\ IF t \in DOMAIN templateAnalysisCache
               THEN /\ lastSelect' = [template |-> t, path |-> "cached"]
                    /\ SelectCached(t)
               ELSE /\ lastSelect' = [template |-> t, path |-> "analyze"]
                    /\ SelectAndAnalyze(t)
    /\ UNCHANGED <<view, viewportSize, videoElement, initialTimer, cameraVars,
                   landmarkerVars, loopVars, isMobile, call,
                   captureVars>>
    /\ Commit

\* Continuation as it would be without the finally blocks: a failed
\* analysis leaves isAnalyzingTemplate set.
ContinuationNoFinally(a, result) ==
    /\ IF result # Null
       THEN /\ templateAnalysisCache' = CachePut(a.template, result[1])
            /\ selectedTemplate' =
                 WithPose(poseTemplates(a.template), result[1].normalizedPose)
            /\ templateLandmarks' = Some(result[1].landmarks)
            /\ isAnalyzingTemplate' = FALSE
       ELSE /\ UNCHANGED <<templateAnalysisCache, selectedTemplate,
                           isAnalyzingTemplate>>
            /\ templateLandmarks' =
                 IF a.origin = "select" THEN Null ELSE templateLandmarks

\* The code after `await analyzeImagePose(...)' in handleTemplateSelect, and
\* the then/catch/finally chain of the initial-template effect; result is
\* Null when analyzeImagePose resolved to null.
Continuation(a, result) ==
    /\ IF result # Null
       THEN /\ templateAnalysisCache' = CachePut(a.template, result[1])
            /\ selectedTemplate' =
                 WithPose(poseTemplates(a.template), result[1].normalizedPose)
            /\ templateLandmarks' = Some(result[1].landmarks)
       ELSE /\ UNCHANGED <<templateAnalysisCache, selectedTemplate>>
            /\ templateLandmarks' =
                 IF a.origin = "select" THEN Null ELSE templateLandmarks
    /\ isAnalyzingTemplate' = FALSE

\* analyzeImagePose settles and its caller resumes.
Settle(a, result) ==
    /\ analyses' = analyses (-) One(a)
    /\ Continuation(a, result)

\* analyzeImagePose moves on to loading the image.
Proceed(a) ==
    /\ analyses' = (analyses (-) One(a)) (+) One([a EXCEPT !.pc = "loadImage"])
    /\ UNCHANGED <<selectedTemplate, templateLandmarks, isAnalyzingTemplate,
                   templateAnalysisCache>>

\* getImageLandmarker: FilesetResolver / createFromOptions settle.
ImageLandmarkerInitSettles(a, ok) ==
    /\ a \in InFlight
    /\ a.pc = "init"
    /\ isInitializingLandmarker' = FALSE
    /\ IF ok
       THEN /\ cachedImageLandmarker' = TRUE
            /\ Proceed(a)
       ELSE /\ UNCHANGED cachedImageLandmarker
            /\ Settle(a, Null)
    /\ UNCHANGED <<view, selectedTemplateImage, viewportSize, videoElement,
                   initialTimer, cameraVars, landmarkerVars, loopVars,
                   isMobile, lastSelect, call,
                   captureVars>>
    /\ Commit

\* getImageLandmarker: a caller that found an initialisation running wakes
\* from a 100 ms sleep.  It returns the instance once it is cached, returns
\* null when the initialisation has ended without one, and otherwise gives up
\* (returns null) when its attempts are used up.
ImageLandmarkerPoll(a) ==
    /\ a \in InFlight
    /\ a.pc = "poll"
    /\ IF cachedImageLandmarker THEN Proceed(a) ELSE Settle(a, Null)
    /\ UNCHANGED <<view, selectedTemplateImage, viewportSize, videoElement,
                   cachedImageLandmarker, isInitializingLandmarker,
                   initialTimer, cameraVars, landmarkerVars, loopVars,
                   isMobile, lastSelect, call,
                   captureVars>>
    /\ Commit

\* How the image load and the detect(img) call that follows a load can end.
DetectOutcomes == {"pose", "noPose", "detectThrows"}
ImageOutcomes == DetectOutcomes \cup {"loadError", "loadTimeout"}

\* analyzeImagePose: the image load settles; when it loaded, detect(img) runs.
ImageSettles(a, outcome) ==
    /\ a \in InFlight
    /\ a.pc = "loadImage"
    /\ Settle(a, IF outcome = "pose" THEN Some(AnalysisResult(a.template)) ELSE Null)
    /\ UNCHANGED <<view, selectedTemplateImage, viewportSize, videoElement,
                   cachedImageLandmarker, isInitializingLandmarker,
                   initialTimer, cameraVars, landmarkerVars, loopVars,
                   isMobile, lastSelect, call,
                   captureVars>>
    /\ Commit

\* ------------------------------------------------------------ CameraView
\* startCamera: getUserMedia resolved and onloadedmetadata called play().
CameraStarts ==
    /\ cameraStage = "starting"
    /\ cameraStage' = "playing"
    /\ UNCHANGED <<appVars, moduleVars, initialTimer, analyses, orphanPlay,
                   hookVars, envVars, histVars, call,
                   captureVars>>

\* startCamera: every getUserMedia attempt rejected.
CameraFails ==
    /\ cameraStage = "starting"
    /\ cameraStage' = "failed"
    /\ UNCHANGED <<appVars, moduleVars, initialTimer, analyses, orphanPlay,
                   hookVars, envVars, histVars, call,
                   captureVars>>

\* The <video> element of a newly mounted CameraView: an element that no
\* state and no scheduled closure refers to.
NewElement ==
    CHOOSE e \in 1..(Cardinality(rafQueue) + 2) :
        /\ videoElement # Some(e)
        /\ \A cb \in rafQueue : cb.videoElement # Some(e)

\* play() settles while the CameraView that called it is mounted:
\* onVideoReady(videoRef.current) on success.
PlaySettles(ok) ==
    /\ cameraStage = "playing"
    /\ cameraStage' = IF ok THEN "ready" ELSE "failed"
    /\ videoElement' = IF ok THEN Some(NewElement) ELSE videoElement
    /\ UNCHANGED <<view, viewportSize, templateVars, initialTimer, orphanPlay,
                   landmarkerVars, loopVars, isMobile, lastSelect, call,
                   captureVars>>
    /\ Commit

\* play() resolves after its CameraView was unmounted: videoRef.current is
\* null by then and is what onVideoReady receives.
OrphanPlayResolves ==
    /\ orphanPlay
    /\ orphanPlay' = FALSE
    /\ videoElement' = Null
    /\ UNCHANGED <<view, viewportSize, templateVars, initialTimer, cameraStage,
                   landmarkerVars, loopVars, isMobile, lastSelect, call,
                   captureVars>>
    /\ Commit

\* --------------------------------------------------------- view changes
\* Gallery button: setView('gallery'); CameraView unmounts.
OpenGallery ==
    /\ view = "camera"
    /\ view' = "gallery"
    /\ cameraStage' = "idle"
    /\ orphanPlay' = (orphanPlay \/ cameraStage = "playing")
    /\ staleDetection' = (latestDetection # Null)
    /\ UNCHANGED <<viewportSize, videoElement, templateVars, initialTimer,
                   landmarkerVars, latestDetection, hasPerson, lastFrameTimeRef,
                   now, lastDetectAt, skeletonReplaced, isMobile, lastSelect, call,
                   captureVars>>
    /\ Commit

\* Gallery onClose: setView('camera'); a new CameraView mounts.
CloseGallery ==
    /\ view = "gallery"
    /\ view' = "camera"
    /\ cameraStage' = "starting"
    /\ UNCHANGED <<viewportSize, videoElement, templateVars, initialTimer,
                   orphanPlay, landmarkerVars, loopVars, isMobile, lastSelect, call,
                   captureVars>>
    /\ Commit

\* Debounced resize handler.
Resize(size) ==
    /\ size # viewportSize
    /\ viewportSize' = size
    /\ UNCHANGED <<view, videoElement, templateVars, initialTimer, cameraVars,
                   landmarkerVars, loopVars, isMobile, lastSelect, call,
                   captureVars>>
    /\ Commit

\* ------------------------------------------------------ usePoseLandmarker
\* initLandmarker as it would be if the catch block left the landmarker of a
\* half-finished initialisation in place.
initLandmarkerKeepsInstance(ok) ==
    /\ isLoading
    /\ isLoading' = FALSE
    /\ landmarker' = TRUE
    /\ error' = ~ok
    /\ UNCHANGED <<view, viewportSize, videoElement, templateVars, initialTimer,
                   cameraVars, loopVars, isMobile, lastSelect, call,
                   captureVars>>
    /\ Commit

\* initLandmarker settles (the component stays mounted).
initLandmarker(ok) ==
    /\ isLoading
    /\ isLoading' = FALSE
    /\ landmarker' = ok
    /\ error' = ~ok
    /\ UNCHANGED <<view, viewportSize, videoElement, templateVars, initialTimer,
                   cameraVars, loopVars, isMobile, lastSelect, call,
                   captureVars>>
    /\ Commit

MsPerSecond == 1000

TARGET_FPS == IF isMobile THEN TargetFpsMobile ELSE TargetFpsDesktop

\* BelowFrameInterval as it would be if elapsed were compared with
\* TARGET_FPS instead of FRAME_INTERVAL.
BelowTargetFps(elapsed) == elapsed < TARGET_FPS

\* elapsed < FRAME_INTERVAL, with FRAME_INTERVAL = 1000 / TARGET_FPS ms.
BelowFrameInterval(elapsed) == elapsed * TARGET_FPS < MsPerSecond

\* The first whole millisecond count that is not below FRAME_INTERVAL.
FrameMs == (MsPerSecond + TARGET_FPS - 1) \div TARGET_FPS

\* Time between two animation frames that run detectPose.
FrameGaps == {FrameMs \div 2, FrameMs - 1, FrameMs}

MaxNow == MaxFrames * FrameMs

DetectorResults == {[kind |-> "none", pose |-> 0], [kind |-> "throws", pose |-> 0]}
                   \cup {[kind |-> "pose", pose |-> p] : p \in Poses}

Reschedule(cb) ==
    LET rest == rafQueue \ {cb}
    IN  /\ rafQueue' = rest \cup {[cb EXCEPT !.id = FreshId(rest)]}
        /\ animationFrameRef' = FreshId(rest)

\* SkipFrame as it would be if a throttled frame also moved the time of the
\* last attempt.
SkipFrameTimestamped(cb) ==
    /\ Reschedule(cb)
    /\ lastFrameTimeRef' = now'
    /\ UNCHANGED <<latestDetection, hasPerson, lastDetectAt, staleDetection>>

\* detectPose, throttle branch: the frame is skipped and the next one
\* requested.
SkipFrame(cb) ==
    /\ Reschedule(cb)
    /\ UNCHANGED <<lastFrameTimeRef, latestDetection, hasPerson, lastDetectAt,
                   staleDetection>>

\* AttemptFrame as it would be if a detection without landmarks cleared the
\* skeleton.
AttemptFrameClearing(cb, readyState, result) ==
    /\ lastFrameTimeRef' = now'
    /\ IF readyState >= 2
       THEN /\ lastDetectAt' = Some(now')
            /\ IF result.kind = "pose"
               THEN /\ latestDetection' =
                         Some([landmarks |-> result.pose, timestamp |-> now'])
                    /\ hasPerson' = TRUE
                    /\ staleDetection' = FALSE
               ELSE IF result.kind = "none"
               THEN /\ hasPerson' = FALSE
                    /\ latestDetection' = Null
                    /\ UNCHANGED staleDetection
               ELSE UNCHANGED <<latestDetection, hasPerson, staleDetection>>
       ELSE UNCHANGED <<latestDetection, hasPerson, lastDetectAt, staleDetection>>
    /\ Reschedule(cb)

\* AttemptFrame as it would be if a detection were stamped with the time
\* since the last attempt instead of the time of this one.
AttemptFrameElapsed(cb, readyState, result) ==
    /\ lastFrameTimeRef' = now'
    /\ IF readyState >= 2
       THEN /\ lastDetectAt' = Some(now')
            /\ IF result.kind = "pose"
               THEN /\ latestDetection' =
                         Some([landmarks |-> result.pose,
                               timestamp |-> now' - lastFrameTimeRef])
                    /\ hasPerson' = TRUE
                    /\ staleDetection' = FALSE
               ELSE IF result.kind = "none"
               THEN /\ hasPerson' = FALSE
                    /\ UNCHANGED <<latestDetection, staleDetection>>
               ELSE UNCHANGED <<latestDetection, hasPerson, staleDetection>>
       ELSE UNCHANGED <<latestDetection, hasPerson, lastDetectAt, staleDetection>>
    /\ Reschedule(cb)

\* AttemptFrame as it would be without the try/catch around the detection:
\* an error of detectForVideo ends the callback before it requests the next
\* frame.
AttemptFrameUncaught(cb, readyState, result) ==
    /\ lastFrameTimeRef' = now'
    /\ IF readyState >= 2
       THEN /\ lastDetectAt' = Some(now')
            /\ IF result.kind = "pose"
               THEN /\ latestDetection' =
                         Some([landmarks |-> result.pose, timestamp |-> now'])
                    /\ hasPerson' = TRUE
                    /\ staleDetection' = FALSE
               ELSE IF result.kind = "none"
               THEN /\ hasPerson' = FALSE
                    /\ UNCHANGED <<latestDetection, staleDetection>>
               ELSE UNCHANGED <<latestDetection, hasPerson, staleDetection>>
       ELSE UNCHANGED <<latestDetection, hasPerson, lastDetectAt, staleDetection>>
    /\ IF readyState >= 2 /\ result.kind = "throws"
       THEN /\ rafQueue' = rafQueue \ {cb}
            /\ UNCHANGED animationFrameRef
       ELSE Reschedule(cb)

\* detectPose past the throttle: the attempt is timestamped, detectForVideo
\* runs when the video has data, and the next frame is requested.
AttemptFrame(cb, readyState, result) ==
    /\ lastFrameTimeRef' = now'
    /\ IF readyState >= 2
       THEN /\ lastDetectAt' = Some(now')
            /\ IF result.kind = "pose"
               THEN /\ latestDetection' =
                         Some([landmarks |-> result.pose, timestamp |-> now'])
                    /\ hasPerson' = TRUE
                    /\ staleDetection' = FALSE
               ELSE IF result.kind = "none"
               THEN /\ hasPerson' = FALSE
                    /\ UNCHANGED <<latestDetection, staleDetection>>
               ELSE UNCHANGED <<latestDetection, hasPerson, staleDetection>>
       ELSE UNCHANGED <<latestDetection, hasPerson, lastDetectAt, staleDetection>>
    /\ Reschedule(cb)

\* One animation frame runs the scheduled detectPose callback cb.
detectPose(cb, gap, readyState, result) ==
    /\ cb \in rafQueue
    /\ now + gap <= MaxNow
    /\ now' = now + gap
    /\ IF ~cb.landmarker \/ cb.videoElement = Null \/ ~cb.isActive
       THEN /\ rafQueue' = rafQueue \ {cb}
            /\ UNCHANGED <<animationFrameRef, lastFrameTimeRef, latestDetection,
                           hasPerson, lastDetectAt, staleDetection>>
       ELSE IF BelowFrameInterval(now' - lastFrameTimeRef)
       THEN SkipFrame(cb)
       ELSE AttemptFrame(cb, readyState, result)
    /\ UNCHANGED <<view, viewportSize, videoElement, templateVars, initialTimer,
                   cameraVars, landmarkerVars, isMobile, lastSelect, call,
                   captureVars>>
    /\ skeletonReplaced' =
         (skeletonReplaced \/ (latestDetection # Null /\ latestDetection' # latestDetection))
    /\ GuidanceEffect

\* ---------------------------------------------------------------- poseUtils
\* POSE_LANDMARKS
LEFT_SHOULDER == 11
RIGHT_SHOULDER == 12
LEFT_ELBOW == 13
RIGHT_ELBOW == 14
LEFT_WRIST == 15
RIGHT_WRIST == 16
LEFT_HIP == 23
RIGHT_HIP == 24
LEFT_KNEE == 25
RIGHT_KNEE == 26
LEFT_ANKLE == 27
RIGHT_ANKLE == 28
RIGHT_FOOT_INDEX == 32

\* Indices of the landmarks MediaPipe reports for one pose.
LandmarkIndices == 0..RIGHT_FOOT_INDEX

Landmark(x, y, visibility) == [x |-> x, y |-> y, visibility |-> visibility]

Abs(n) == IF n < 0 THEN -n ELSE n

\* Math.atan2(dy, dx) * (180 / Math.PI), for the vectors whose angle is a
\* whole number of degrees: the zero vector and the eight compass directions.
Atan2Deg(dy, dx) ==
    CASE dy = 0 /\ dx >= 0 -> 0
      [] dy = 0 /\ dx < 0 -> 180
      [] dx = 0 /\ dy > 0 -> 90
      [] dx = 0 /\ dy < 0 -> -90
      [] dx > 0 /\ dy = dx -> 45
      [] dx > 0 /\ dy = -dx -> -45
      [] dx < 0 /\ dy = -dx -> 135
      [] dx < 0 /\ dy = dx -> -135

computeTilt(landmarks) ==
    LET leftShoulder == landmarks[LEFT_SHOULDER]
        rightShoulder == landmarks[RIGHT_SHOULDER]
        dx == rightShoulder.x - leftShoulder.x
        dy == rightShoulder.y - leftShoulder.y
        angle == Atan2Deg(dy, dx)
    IN  Abs(angle)

\* Shoulder vectors along a compass direction.
Aligned(dx, dy) == dx = 0 \/ dy = 0 \/ Abs(dx) = Abs(dy)

Grid == (0..MaxCoord) \X (0..MaxCoord)

\* A detected skeleton with the shoulders at l and r.
ShoulderSkeleton(l, r) ==
    [i \in LandmarkIndices |->
        IF i = LEFT_SHOULDER THEN Landmark(l[1], l[2], Some(100))
        ELSE IF i = RIGHT_SHOULDER THEN Landmark(r[1], r[2], Some(100))
        ELSE Landmark(0, 0, Some(100))]

TiltSkeletons ==
    {ShoulderSkeleton(l, r) : <<l, r>> \in
        {p \in Grid \X Grid : Aligned(p[2][1] - p[1][1], p[2][2] - p[1][2])}}

\* The guidance effect is about to call computeTilt(landmarks).
InitTilt ==
    /\ ProgramInit
    /\ call \in {[fn |-> "computeTilt", args |-> <<sk>>, result |-> Null] :
                    sk \in TiltSkeletons}

\* computeTilt returns.
ReturnTilt ==
    /\ call.fn = "computeTilt"
    /\ call.result = Null
    /\ call' = [call EXCEPT !.result = Some(computeTilt(call.args[1]))]
    /\ UNCHANGED programVars

SpecTilt == InitTilt /\ [][ReturnTilt]_vars

\* ------------------------------------------------------- template data
\* keyLandmarks of the templates, in the order of the poseTemplates array:
\* two standing full body, two standing 3/4 body, two sitting.
StandingFullBodyKeys ==
    <<LEFT_SHOULDER, RIGHT_SHOULDER, LEFT_HIP, RIGHT_HIP,
      LEFT_KNEE, RIGHT_KNEE, LEFT_ANKLE, RIGHT_ANKLE>>

StandingThreeQuarterKeys ==
    <<LEFT_SHOULDER, RIGHT_SHOULDER, LEFT_HIP, RIGHT_HIP,
      LEFT_ELBOW, RIGHT_ELBOW, LEFT_WRIST, RIGHT_WRIST>>

SittingKeys ==
    <<LEFT_SHOULDER, RIGHT_SHOULDER, LEFT_HIP, RIGHT_HIP, LEFT_KNEE, RIGHT_KNEE>>

KeyLandmarkIndices(t) ==
    IF t <= 2 THEN StandingFullBodyKeys
    ELSE IF t <= 4 THEN StandingThreeQuarterKeys
    ELSE SittingKeys

\* The normalizedPose.landmarks literal of the first template, in
\* hundredths: one entry per key landmark, in the order of keyLandmarks,
\* at array positions 0, 1, 2, ...
StandingFullBodyLandmarks ==
    LET literal == <<Landmark(0, -40, Null), Landmark(0, -40, Null),
                     Landmark(-5, 0, Null), Landmark(5, 0, Null),
                     Landmark(-5, 25, Null), Landmark(5, 25, Null),
                     Landmark(-5, 50, Null), Landmark(5, 50, Null)>>
    IN  [i \in 0..(Len(literal) - 1) |-> literal[i + 1]]

\* Every template's literal has as many entries as the template has key
\* landmarks.
StaticLandmarkCount(t) == Len(KeyLandmarkIndices(t))

\* The array positions at which a normalized pose has a landmark: those of
\* the literal for a default pose, all the detector's landmarks for the
\* result of normalizePose.
LandmarkSlots(pose) ==
    IF pose.kind = "default" THEN 0..(StaticLandmarkCount(pose.of) - 1)
    ELSE LandmarkIndices

\* ------------------------------------------------------ computePoseMatch
\* Scores are kept as exact fractions.
Zero == [num |-> 0, den |-> 1]

\* visibility > 0.5, in hundredths.
VisibilityThreshold == 50

\* The average error at which the match reaches 0: 0.5, in hundredths.
FullError == 50

\* Math.sqrt(dx * dx + dy * dy), for the vectors whose length is whole.
Distance(dx, dy) ==
    CHOOSE r \in 0..(Abs(dx) + Abs(dy)) : r * r = dx * dx + dy * dy

\* live && template && live.visibility && live.visibility > 0.5
Compared(normalizedPose, templatePose, idx) ==
    /\ idx \in DOMAIN normalizedPose.landmarks
    /\ idx \in DOMAIN templatePose.landmarks
    /\ normalizedPose.landmarks[idx].visibility # Null
    /\ normalizedPose.landmarks[idx].visibility[1] # 0
    /\ normalizedPose.landmarks[idx].visibility[1] > VisibilityThreshold

\* The loop over keyLandmarkIndices, after its first k iterations.
RECURSIVE Accumulate(_, _, _, _)
Accumulate(normalizedPose, templatePose, keyLandmarkIndices, k) ==
    IF k = 0 THEN [totalError |-> 0, validLandmarks |-> 0]
    ELSE LET before == Accumulate(normalizedPose, templatePose,
                                  keyLandmarkIndices, k - 1)
             idx == keyLandmarkIndices[k]
             live == normalizedPose.landmarks[idx]
             template == templatePose.landmarks[idx]
         IN  IF Compared(normalizedPose, templatePose, idx)
             THEN [totalError |-> before.totalError
                                  + Distance(live.x - template.x, live.y - template.y),
                   validLandmarks |-> before.validLandmarks + 1]
             ELSE before

\* PoseMatchScore as it would be if the error were scaled against 1.0.
PoseMatchScoreFullScale(totalError, validLandmarks) ==
    LET den == 2 * FullError * validLandmarks
        num == den - totalError
    IN  [num |-> IF num < 0 THEN 0 ELSE IF num > den THEN den ELSE num,
         den |-> den]

\* Math.max(0, Math.min(1, 1 - avgError / 0.5)) with
\* avgError = totalError / validLandmarks.
PoseMatchScore(totalError, validLandmarks) ==
    LET den == FullError * validLandmarks
        num == den - totalError
    IN  [num |-> IF num < 0 THEN 0 ELSE IF num > den THEN den ELSE num,
         den |-> den]

computePoseMatch(normalizedPose, templatePose, keyLandmarkIndices) ==
    IF Len(keyLandmarkIndices) = 0 THEN Zero
    ELSE LET sums == Accumulate(normalizedPose, templatePose, keyLandmarkIndices,
                                Len(keyLandmarkIndices))
         IN  IF sums.validLandmarks = 0 THEN Zero
             ELSE PoseMatchScore(sums.totalError, sums.validLandmarks)

\* The key landmarks that vary in the comparisons examined.
KeyCandidates == SubSeq(StandingFullBodyKeys, 1, NumKeys)

KeyCandidateSet == {KeyCandidates[i] : i \in 1..NumKeys}

\* keyLandmarks arguments: the candidates, some left out.
KeyLists ==
    {SelectSeq(KeyCandidates, LAMBDA idx : idx \in chosen) :
        chosen \in SUBSET KeyCandidateSet}

\* Normalized positions on one line, 0.25 apart.
LinePoints == {<<15 * k, 20 * k>> : k \in 0..MaxStep}

\* visibility of a live landmark: undefined, 0.5 or 0.51.
Visibilities == {Null, Some(VisibilityThreshold), Some(VisibilityThreshold + 1)}

\* A pose with a landmark at each of the detector's indices, which is what
\* normalizePose returns; the key candidates are placed by at.
FullPose(at) ==
    [landmarks |-> [i \in LandmarkIndices |->
                       IF i \in KeyCandidateSet THEN at[i]
                       ELSE Landmark(0, 0, Some(100))],
     center |-> [x |-> 0, y |-> 0],
     scale |-> 1]

LivePoses ==
    {FullPose(at) : at \in
        [KeyCandidateSet ->
            {Landmark(p[1], p[2], v) : p \in LinePoints, v \in Visibilities}]}

\* Template poses: the first template's static default, and analysed poses
\* (which key landmark differs from the live one, and by how much, is
\* decided by the live pose).
TemplatePoses ==
    {[landmarks |-> StandingFullBodyLandmarks,
      center |-> [x |-> 0, y |-> 0], scale |-> 1]}
    \cup {FullPose([i \in KeyCandidateSet |-> Landmark(p[1], p[2], Some(100))]) :
            p \in LinePoints}

\* The guidance effect is about to call computePoseMatch.
InitPoseMatch ==
    /\ ProgramInit
    /\ isMobile
    /\ viewportSize.width <= MobileMaxWidth
    /\ call \in {[fn |-> "computePoseMatch", args |-> <<live, template, keys>>,
                  result |-> Null] :
                    live \in LivePoses, template \in TemplatePoses, keys \in KeyLists}

\* computePoseMatch returns.
ReturnPoseMatch ==
    /\ call.fn = "computePoseMatch"
    /\ call.result = Null
    /\ call' = [call EXCEPT !.result =
                   Some(computePoseMatch(call.args[1], call.args[2], call.args[3]))]
    /\ UNCHANGED programVars

SpecPoseMatch == InitPoseMatch /\ [][ReturnPoseMatch]_vars

\* ---------------------------------------------------------- normalizePose
NOSE == 0

\* A landmark as the detector reports it, with its depth component; an
\* undefined z or visibility is Null.
Landmark3D(x, y, z, visibility) ==
    [x |-> x, y |-> y, z |-> z, visibility |-> visibility]

\* The exact value of num / den. A den of 0 is a division by zero, whose
\* result (Infinity or NaN) is no coordinate.
Quotient(num, den) == [num |-> num, den |-> den]

\* HipSum as it would be if the center were the left hip alone.
HipSumLeftOnly(landmarks) ==
    [x |-> 2 * landmarks[LEFT_HIP].x, y |-> 2 * landmarks[LEFT_HIP].y]

\* Twice the center: the hip midpoint is (leftHip + rightHip) / 2.
HipSum(landmarks) ==
    [x |-> landmarks[LEFT_HIP].x + landmarks[RIGHT_HIP].x,
     y |-> landmarks[LEFT_HIP].y + landmarks[RIGHT_HIP].y]

\* Twice shoulderHipDistance.
ShoulderHipDistanceTwice(landmarks) ==
    LET leftShoulder == landmarks[LEFT_SHOULDER]
        rightShoulder == landmarks[RIGHT_SHOULDER]
        center2 == HipSum(landmarks)
    IN  Distance(leftShoulder.x + rightShoulder.x - center2.x,
                 leftShoulder.y + rightShoulder.y - center2.y)

\* Twice bodyHeight: the distance from the nose to the ankle midpoint.
BodyHeightTwice(landmarks) ==
    LET nose == landmarks[NOSE]
        leftAnkle == landmarks[LEFT_ANKLE]
        rightAnkle == landmarks[RIGHT_ANKLE]
    IN  Distance(2 * nose.x - (leftAnkle.x + rightAnkle.x),
                 2 * nose.y - (leftAnkle.y + rightAnkle.y))

\* ScaleTwice as it would be with a constant scale of 1.
ScaleTwiceUnit(bodyHeight2, shoulderHipDistance2) == 2

\* ScaleTwice as it would be without the final "|| 1".
ScaleTwiceNoDefault(bodyHeight2, shoulderHipDistance2) ==
    IF bodyHeight2 # 0 THEN bodyHeight2 ELSE shoulderHipDistance2

\* Twice the scale: bodyHeight || shoulderHipDistance || 1.
ScaleTwice(bodyHeight2, shoulderHipDistance2) ==
    IF bodyHeight2 # 0 THEN bodyHeight2
    ELSE IF shoulderHipDistance2 # 0 THEN shoulderHipDistance2
    ELSE 2

\* lm.z ? lm.z / scale : undefined
\* The condition is the truthiness of z: undefined and 0 both fail it.
NormalizedDepth(z, scale2) ==
    IF z # Null /\ z[1] # 0 THEN Some(Quotient(2 * z[1], scale2)) ELSE Null

normalizePose(landmarks) ==
    LET center2 == HipSum(landmarks)
        scale2 == ScaleTwice(BodyHeightTwice(landmarks),
                             ShoulderHipDistanceTwice(landmarks))
    IN  [landmarks |->
            [i \in DOMAIN landmarks |->
                [x |-> Quotient(2 * landmarks[i].x - center2.x, scale2),
                 y |-> Quotient(2 * landmarks[i].y - center2.y, scale2),
                 z |-> NormalizedDepth(landmarks[i].z, scale2),
                 visibility |-> landmarks[i].visibility]],
         center |-> [x |-> 0, y |-> 0],
         scale |-> 1]

\* Depth and visibility values of a detected landmark, in hundredths.
Depths == {Null, Some(0), Some(-30)}
Confidences == {Null, Some(0), Some(90)}

\* A skeleton whose landmarks lie on one line, 0.25 apart, away from the
\* origin: the nose, both shoulders, each hip and both ankles at the given
\* steps, every other landmark at step 1.
LineSkeleton(nose, shoulder, leftHip, rightHip, ankle, z, visibility) ==
    [i \in LandmarkIndices |->
        LET k == CASE i = NOSE -> nose
                   [] i \in {LEFT_SHOULDER, RIGHT_SHOULDER} -> shoulder
                   [] i = LEFT_HIP -> leftHip
                   [] i = RIGHT_HIP -> rightHip
                   [] i \in {LEFT_ANKLE, RIGHT_ANKLE} -> ankle
                   [] OTHER -> 1
        IN  Landmark3D(15 * k + 10, 20 * k + 5, z, visibility)]

NormalizeSkeletons ==
    {LineSkeleton(n, s, lh, rh, a, z, v) :
        n \in 0..MaxStep, s \in 0..MaxStep, lh \in 0..MaxStep,
        rh \in 0..MaxStep, a \in 0..MaxStep, z \in Depths, v \in Confidences}

\* analyzeImagePose is about to call normalizePose(landmarks).
InitNormalize ==
    /\ ProgramInit
    /\ isMobile
    /\ viewportSize.width <= MobileMaxWidth
    /\ call \in {[fn |-> "normalizePose", args |-> <<sk>>, result |-> Null] :
                    sk \in NormalizeSkeletons}

\* normalizePose returns.
ReturnNormalize ==
    /\ call.fn = "normalizePose"
    /\ call.result = Null
    /\ call' = [call EXCEPT !.result = Some(normalizePose(call.args[1]))]
    /\ UNCHANGED programVars

SpecNormalize == InitNormalize /\ [][ReturnNormalize]_vars

\* ------------------------------------------------------- analyzeImagePose
\* How a promise settles.
Fulfilled(value) == [state |-> "fulfilled", value |-> value]
Rejected == [state |-> "rejected", value |-> Null]

\* How a block of code ends.
Returns(value) == [kind |-> "return", value |-> value]
Throws == [kind |-> "throw", value |-> Null]

\* The try block of analyzeImagePose.  poseLandmarker is what
\* `await getImageLandmarker()' yielded ("instance" or "null"), load is how
\* the race of the image load against the 10 s timer ended, detection is
\* what poseLandmarker.detect(img) does.
analyzeImagePoseBody(poseLandmarker, load, detection) ==
    IF poseLandmarker = "null" THEN Returns(Null)
    ELSE IF load # "loaded" THEN Throws
    ELSE IF detection.kind = "throws" THEN Throws
    ELSE IF detection.kind = "pose"
         THEN Returns(Some([landmarks |-> detection.landmarks,
                            normalizedPose |-> normalizePose(detection.landmarks)]))
         ELSE Returns(Null)

\* analyzeImagePose as it would be without its catch block.
analyzeImagePoseNoCatch(poseLandmarker, load, detection) ==
    LET body == analyzeImagePoseBody(poseLandmarker, load, detection)
    IN  IF body.kind = "throw" THEN Rejected ELSE Fulfilled(body.value)

\* analyzeImagePose: an async function whose whole body is a try block with
\* a catch that returns null.
analyzeImagePose(poseLandmarker, load, detection) ==
    LET body == analyzeImagePoseBody(poseLandmarker, load, detection)
    IN  IF body.kind = "throw" THEN Fulfilled(Null) ELSE Fulfilled(body.value)

LandmarkerResults == {"instance", "null"}
LoadResults == {"loaded", "loadError", "loadTimeout"}

\* Skeletons the detector finds in a reference image.
ImageSkeletons ==
    {LineSkeleton(n, s, h, h, a, Some(-30), Some(90)) :
        n \in 0..MaxStep, s \in 0..MaxStep, h \in 0..MaxStep, a \in 0..MaxStep}

\* What detect(img) does: it throws, finds no pose, or finds one.
ImageDetections ==
    {[kind |-> "throws", landmarks |-> <<>>], [kind |-> "none", landmarks |-> <<>>]}
    \cup {[kind |-> "pose", landmarks |-> sk] : sk \in ImageSkeletons}

\* analyzeImagePose(imageUrl) has been called.
InitAnalyze ==
    /\ ProgramInit
    /\ isMobile
    /\ viewportSize.width <= MobileMaxWidth
    /\ call \in {[fn |-> "analyzeImagePose", args |-> <<lm, load, d>>,
                  result |-> Null] :
                    lm \in LandmarkerResults, load \in LoadResults,
                    d \in ImageDetections}

\* The promise of analyzeImagePose settles.
SettleAnalyze ==
    /\ call.fn = "analyzeImagePose"
    /\ call.result = Null
    /\ call' = [call EXCEPT !.result =
                   Some(analyzeImagePose(call.args[1], call.args[2], call.args[3]))]
    /\ UNCHANGED programVars

SpecAnalyze == InitAnalyze /\ [][SettleAnalyze]_vars

\* ---------------------------------------------------- computeCenterOffset
\* ClampUnit as it would be without the clamp.
ClampUnitNone(q) == q

\* Math.max(-1, Math.min(1, q)), for a quotient with a positive den.
ClampUnit(q) ==
    IF q.num > q.den THEN Quotient(q.den, q.den)
    ELSE IF q.num < -q.den THEN Quotient(-q.den, q.den)
    ELSE q

\* With x in hundredths: centerX = (leftHip.x + rightHip.x) / 200 * width,
\* viewportCenter = width / 2 = 100 * width / 200.
computeCenterOffset(landmarks, viewportWidth) ==
    LET centerX200 == HipSum(landmarks).x * viewportWidth
        viewportCenter200 == 100 * viewportWidth
        offset == Quotient(centerX200 - viewportCenter200, viewportCenter200)
    IN  ClampUnit(offset)

\* Horizontal hip positions, in hundredths of the image width; the detector
\* also reports landmarks it places outside the image.
HipXs == {-60, 0, 40, 50, 60, 100, 170}

\* A detected skeleton with the hips at the given x.
HipSkeleton(leftX, rightX) ==
    [i \in LandmarkIndices |->
        IF i = LEFT_HIP THEN Landmark3D(leftX, 50, Some(0), Some(90))
        ELSE IF i = RIGHT_HIP THEN Landmark3D(rightX, 50, Some(0), Some(90))
        ELSE Landmark3D(50, 50, Some(0), Some(90))]

CenterSkeletons == {HipSkeleton(l, r) : l \in HipXs, r \in HipXs}

\* The guidance effect is about to call
\* computeCenterOffset(landmarks, viewportSize.width).
InitCenterOffset ==
    /\ ProgramInit
    /\ call \in {[fn |-> "computeCenterOffset",
                  args |-> <<sk, viewportSize.width>>, result |-> Null] :
                    sk \in CenterSkeletons}

\* computeCenterOffset returns.
ReturnCenterOffset ==
    /\ call.fn = "computeCenterOffset"
    /\ call.result = Null
    /\ call' = [call EXCEPT !.result =
                   Some(computeCenterOffset(call.args[1], call.args[2]))]
    /\ UNCHANGED programVars

SpecCenterOffset == InitCenterOffset /\ [][ReturnCenterOffset]_vars

\* ---------------------------------------------------- computeDistanceHint
\* minHeight = viewportHeight * 0.4 and maxHeight = viewportHeight * 0.15,
\* in hundredths of the viewport height.
MinHeightPercent == 40
MaxHeightPercent == 15

\* computeDistanceHint as it would be with inclusive comparisons.
computeDistanceHintInclusive(landmarks, viewportHeight) ==
    LET bodyHeight2 == BodyHeightTwice(landmarks) * viewportHeight
        minHeight2 == 2 * MinHeightPercent * viewportHeight
        maxHeight2 == 2 * MaxHeightPercent * viewportHeight
    IN  IF bodyHeight2 >= minHeight2 THEN "too-close"
        ELSE IF bodyHeight2 <= maxHeight2 THEN "too-far"
        ELSE "good"

\* Heights are kept doubled, in hundredths of a pixel.
computeDistanceHint(landmarks, viewportHeight) ==
    LET bodyHeight2 == BodyHeightTwice(landmarks) * viewportHeight
        minHeight2 == 2 * MinHeightPercent * viewportHeight
        maxHeight2 == 2 * MaxHeightPercent * viewportHeight
    IN  IF bodyHeight2 > minHeight2 THEN "too-close"
        ELSE IF bodyHeight2 < maxHeight2 THEN "too-far"
        ELSE "good"

\* A detected skeleton with the nose and the ankles on one line, in steps
\* of 0.05 along it.
HeightSkeleton(nose, leftAnkle, rightAnkle) ==
    [i \in LandmarkIndices |->
        LET k == CASE i = NOSE -> nose
                   [] i = LEFT_ANKLE -> leftAnkle
                   [] i = RIGHT_ANKLE -> rightAnkle
                   [] OTHER -> 1
        IN  Landmark3D(3 * k + 10, 4 * k + 5, Some(0), Some(90))]

HeightSkeletons ==
    {HeightSkeleton(n, l, r) : n \in 0..MaxNoseStep, l \in 0..1, r \in 0..1}

\* The guidance effect is about to call
\* computeDistanceHint(landmarks, viewportSize.height).
InitDistanceHint ==
    /\ ProgramInit
    /\ call \in {[fn |-> "computeDistanceHint",
                  args |-> <<sk, viewportSize.height>>, result |-> Null] :
                    sk \in HeightSkeletons}

\* computeDistanceHint returns.
ReturnDistanceHint ==
    /\ call.fn = "computeDistanceHint"
    /\ call.result = Null
    /\ call' = [call EXCEPT !.result =
                   Some(computeDistanceHint(call.args[1], call.args[2]))]
    /\ UNCHANGED programVars

SpecDistanceHint == InitDistanceHint /\ [][ReturnDistanceHint]_vars

\* ------------------------------------------------------ guidance messages
\* Thresholds of getGuidanceMessage: |centerOffset| > 0.15 and
\* poseMatch > 0.7 in hundredths, tilt > 5 in degrees; and of the arrow the
\* HUD draws: |centerOffset| > 0.1.
OffsetThreshold == 15
TiltThreshold == 5
MatchThreshold == 70
ArrowThreshold == 10

\* Math.abs(q) > hundredths / 100, for a quotient with a positive den.
Exceeds(q, hundredths) == Abs(q.num) * 100 > hundredths * q.den

\* getGuidanceMessage as it would be if the tilt were tested before the
\* center offset.
getGuidanceMessageTiltFirst(g) ==
    IF g = Null THEN Null
    ELSE LET gd == g[1]
         IN  IF gd.distance = "too-close" THEN Some("Too close.")
             ELSE IF gd.distance = "too-far" THEN Some("Step forward.")
             ELSE IF gd.tilt > TiltThreshold THEN Some("Still crooked.")
             ELSE IF Exceeds(gd.centerOffset, OffsetThreshold)
                  THEN IF gd.centerOffset.num > 0 THEN Some("Move right.")
                       ELSE Some("Move left.")
             ELSE IF gd.poseMatch.num * 100 > MatchThreshold * gd.poseMatch.den
                  THEN Some("Now we're talking.")
             ELSE Some("Align with the outline.")

\* The message App shows for a guidance value (null or one value).
getGuidanceMessage(g) ==
    IF g = Null THEN Null
    ELSE LET gd == g[1]
         IN  IF gd.distance = "too-close" THEN Some("Too close.")
             ELSE IF gd.distance = "too-far" THEN Some("Step forward.")
             ELSE IF Exceeds(gd.centerOffset, OffsetThreshold)
                  THEN IF gd.centerOffset.num > 0 THEN Some("Move right.")
                       ELSE Some("Move left.")
             ELSE IF gd.tilt > TiltThreshold THEN Some("Still crooked.")
             ELSE IF gd.poseMatch.num * 100 > MatchThreshold * gd.poseMatch.den
                  THEN Some("Now we're talking.")
             ELSE Some("Align with the outline.")

\* The text the HUD draws above its center-offset arrow, if it draws one.
hintText(g) ==
    IF g = Null THEN Null
    ELSE IF Exceeds(g[1].centerOffset, ArrowThreshold)
         THEN IF g[1].centerOffset.num > 0 THEN Some("Move right")
              ELSE Some("Move left")
    ELSE Null

\* Guidance values: what the four metric functions can return.
GuidanceValues ==
    [centerOffset : {Quotient(n, 100) : n \in {-100, -16, -15, -11, 0, 10, 15, 16, 100}},
     distance : {"too-close", "good", "too-far"},
     tilt : {0, 5, 45, 135},
     poseMatch : {Quotient(n, 100) : n \in {0, 70, 71, 100}}]

\* The distance, tilt and poseMatch of a guidance value.
OtherMetrics ==
    [distance : {"too-close", "good", "too-far"},
     tilt : {0, 45},
     poseMatch : {Quotient(n, 100) : n \in {0, 100}}]

\* The guidance value the guidance effect builds from a skeleton, with the
\* other three metrics as given.
GuidanceOf(landmarks, viewportWidth, rest) ==
    [centerOffset |-> computeCenterOffset(landmarks, viewportWidth),
     distance |-> rest.distance,
     tilt |-> rest.tilt,
     poseMatch |-> rest.poseMatch]

\* App and the HUD are about to render a guidance value; or the guidance
\* effect is about to build one from a skeleton, which App then renders.
InitMessage ==
    /\ ProgramInit
    /\ isMobile
    /\ viewportSize.width <= MobileMaxWidth
    /\ call \in {[fn |-> f, args |-> <<g>>, result |-> Null] :
                    f \in {"getGuidanceMessage", "hintText"},
                    g \in {Null} \cup {Some(gd) : gd \in GuidanceValues}}
                \cup {[fn |-> "guidanceMessage",
                       args |-> <<sk, viewportSize.width, rest>>,
                       result |-> Null] :
                         sk \in CenterSkeletons, rest \in OtherMetrics}

\* getGuidanceMessage returns.
ReturnGuidanceMessage ==
    /\ call.fn = "getGuidanceMessage"
    /\ call.result = Null
    /\ call' = [call EXCEPT !.result = Some(getGuidanceMessage(call.args[1]))]
    /\ UNCHANGED programVars

\* The HUD has chosen the text of its hint.
ReturnHintText ==
    /\ call.fn = "hintText"
    /\ call.result = Null
    /\ call' = [call EXCEPT !.result = Some(hintText(call.args[1]))]
    /\ UNCHANGED programVars

\* The guidance effect has run on a skeleton and App has rendered the
\* message for the guidance it set.
RenderGuidanceMessage ==
    /\ call.fn = "guidanceMessage"
    /\ call.result = Null
    /\ call' = [call EXCEPT !.result =
                   Some(getGuidanceMessage(
                           Some(GuidanceOf(call.args[1], call.args[2], call.args[3]))))]
    /\ UNCHANGED programVars

MessageNext == ReturnGuidanceMessage \/ ReturnHintText \/ RenderGuidanceMessage

SpecMessage == InitMessage /\ [][MessageNext]_vars

\* ------------------------------------------------------------ photo capture
\* Everything a capture step leaves alone.
nonCaptureVars == <<appVars, moduleVars, asyncVars, hookVars, envVars, histVars,
                    call>>

\* guidance?.poseMatch
PoseMatchOf(g) == IF g = Null THEN Null ELSE Some(g[1].poseMatch)

\* How the synchronous part of handleCapture can end: the frame is drawn
\* and toBlob is called, getContext returns null, or a call throws.
DrawOutcomes == {"drawn", "no-context", "throws"}

\* The shutter is pressed. The callback handed to toBlob keeps the
\* selectedTemplate and guidance of the render whose handleCapture was
\* called, of which it reads the template's id and the guidance's poseMatch;
\* atTrigger records the poseMatch of the guidance at this moment.
handleCapture(outcome) ==
    /\ view = "camera"
    /\ ~isCapturing
    /\ hasPerson
    /\ videoElement # Null
    /\ Len(photos) < MaxPhotos
    /\ IF outcome = "drawn"
       THEN /\ isCapturing' = TRUE
            /\ capture' = Some([stage |-> "encoding",
                                poseTemplate |-> selectedTemplate.id,
                                poseMatch |-> PoseMatchOf(guidance),
                                photo |-> Null,
                                atTrigger |-> PoseMatchOf(guidance)])
       ELSE /\ isCapturing' = FALSE
            /\ capture' = Null
    /\ UNCHANGED <<photos, nonCaptureVars>>

\* The PhotoRecord the toBlob callback builds.
PhotoRecord(poseTemplate, poseMatch, atTrigger) ==
    [meta |-> [poseTemplate |-> poseTemplate, poseMatch |-> poseMatch],
     atTrigger |-> atTrigger]

\* BlobReady as it would be if the callback read the guidance of the
\* latest render.
BlobReadyLatestGuidance(hasBlob) ==
    /\ capture # Null
    /\ capture[1].stage = "encoding"
    /\ IF hasBlob
       THEN /\ capture' = Some([capture[1] EXCEPT
                    !.stage = "saving",
                    !.photo = Some(PhotoRecord(capture[1].poseTemplate,
                                               PoseMatchOf(guidance),
                                               capture[1].atTrigger))])
            /\ UNCHANGED isCapturing
       ELSE /\ capture' = Null
            /\ isCapturing' = FALSE
    /\ UNCHANGED <<photos, nonCaptureVars>>

\* canvas.toBlob calls back: without a blob the capture is given up, with
\* one the photo record is built and savePhoto is called.
BlobReady(hasBlob) ==
    /\ capture # Null
    /\ capture[1].stage = "encoding"
    /\ IF hasBlob
       THEN /\ capture' = Some([capture[1] EXCEPT
                    !.stage = "saving",
                    !.photo = Some(PhotoRecord(capture[1].poseTemplate,
                                               capture[1].poseMatch,
                                               capture[1].atTrigger))])
            /\ UNCHANGED isCapturing
       ELSE /\ capture' = Null
            /\ isCapturing' = FALSE
    /\ UNCHANGED <<photos, nonCaptureVars>>

\* savePhoto(photo) of utils/indexedDB: the promise it returns resolves when
\* the photo is stored and rejects when the save fails.
savePhotoResults == {"resolved", "rejected"}

\* savePhoto settles: resolved, the photo is put first in photos and the
\* 300 ms timer is started; rejected, the callback ends there.
SaveSettles(ok) ==
    /\ capture # Null
    /\ capture[1].stage = "saving"
    /\ IF ok
       THEN /\ photos' = <<capture[1].photo[1]>> \o photos
            /\ capture' = Some([capture[1] EXCEPT !.stage = "cooldown"])
       ELSE /\ photos' = photos
            /\ capture' = Null
    /\ UNCHANGED <<isCapturing, nonCaptureVars>>

\* The 300 ms timer fires: setIsCapturing(false).
CaptureTimerFires ==
    /\ capture # Null
    /\ capture[1].stage = "cooldown"
    /\ isCapturing' = FALSE
    /\ capture' = Null
    /\ UNCHANGED <<photos, nonCaptureVars>>

\* ------------------------------------------------------------------ Next
\* Template selection, the analyses it starts and the view switch.
TemplateNext ==
    \/ InitialTimerFires
    \/ \E t \in Templates : handleTemplateSelect(t)
    \/ \E a \in InFlight, ok \in BOOLEAN : ImageLandmarkerInitSettles(a, ok)
    \/ \E a \in InFlight : ImageLandmarkerPoll(a)
    \/ \E a \in InFlight, o \in ImageOutcomes : ImageSettles(a, o)
    \/ OpenGallery
    \/ CloseGallery

\* The camera, the detector and the detection loop.
LoopNext ==
    \/ CameraStarts
    \/ CameraFails
    \/ \E ok \in BOOLEAN : PlaySettles(ok)
    \/ OrphanPlayResolves
    \/ OpenGallery
    \/ CloseGallery
    \/ \E size \in Viewports : Resize(size)
    \/ \E ok \in BOOLEAN : initLandmarker(ok)
    \/ \E cb \in rafQueue, gap \in FrameGaps, rs \in {1, 2}, r \in DetectorResults :
          detectPose(cb, gap, rs, r)

\* The shutter and the steps of a capture.
ShutterNext ==
    \/ \E outcome \in DrawOutcomes : handleCapture(outcome)
    \/ \E hasBlob \in BOOLEAN : BlobReady(hasBlob)
    \/ \E r \in savePhotoResults : SaveSettles(r = "resolved")
    \/ CaptureTimerFires

Next == TemplateNext \/ LoopNext \/ ShutterNext

Spec == Init /\ [][Next]_vars

SpecTemplates == Init /\ [][TemplateNext]_vars

\* The steps by which the analysis started for template t by origin o moves
\* on: its landmarker initialisation settles, its poll wakes, or its image
\* load and detection settle.
AnalysisStep(t, o) ==
    \E a \in InFlight :
       /\ a.template = t
       /\ a.origin = o
       /\ \/ \E ok \in BOOLEAN : ImageLandmarkerInitSettles(a, ok)
          \/ ImageLandmarkerPoll(a)
          \/ \E outcome \in ImageOutcomes : ImageSettles(a, outcome)

\* Template selection and analysis where every analysis in flight
\* eventually settles: the poll loop ends after 50 waits of 100 ms, the image
\* load is raced against a 10 s timer, and the promises of the landmarker
\* initialisation are taken to settle.
SpecTemplatesFair ==
    /\ SpecTemplates
    /\ \A t \in Templates : \A o \in {"select", "initial"} :
          WF_vars(AnalysisStep(t, o))

SpecLoop == Init /\ [][LoopNext]_vars

\* Template selection together with a camera that delivers a frame with
\* data once per frame interval.
GuidanceNext ==
    \/ InitialTimerFires
    \/ \E t \in Templates : handleTemplateSelect(t)
    \/ \E a \in InFlight, ok \in BOOLEAN : ImageLandmarkerInitSettles(a, ok)
    \/ \E a \in InFlight : ImageLandmarkerPoll(a)
    \/ \E a \in InFlight, o \in ImageOutcomes : ImageSettles(a, o)
    \/ CameraStarts
    \/ \E ok \in BOOLEAN : PlaySettles(ok)
    \/ \E ok \in BOOLEAN : initLandmarker(ok)
    \/ \E cb \in rafQueue, r \in DetectorResults : detectPose(cb, FrameMs, 2, r)

SpecGuidance == Init /\ [][GuidanceNext]_vars

\* The same with a window that is resized.
SnapshotNext ==
    \/ GuidanceNext
    \/ \E size \in Viewports : Resize(size)

SpecSnapshot == Init /\ [][SnapshotNext]_vars

\* The shutter, with a camera that delivers a frame with data once per
\* frame interval and template selections whose analysis has not settled.
CaptureNext ==
    \/ \E t \in Templates : handleTemplateSelect(t)
    \/ CameraStarts
    \/ \E ok \in BOOLEAN : PlaySettles(ok)
    \/ \E ok \in BOOLEAN : initLandmarker(ok)
    \/ \E cb \in rafQueue, r \in DetectorResults : detectPose(cb, FrameMs, 2, r)
    \/ ShutterNext

SpecCapture == Init /\ [][CaptureNext]_vars

\* The shutter where every pending step of a capture happens: toBlob calls
\* its callback, the promise of savePhoto settles, the 300 ms timer fires.
SpecCaptureFair ==
    /\ SpecCapture
    /\ WF_vars(\E hasBlob \in BOOLEAN : BlobReady(hasBlob))
    /\ WF_vars(\E r \in savePhotoResults : SaveSettles(r = "resolved"))
    /\ WF_vars(CaptureTimerFires)

\* ============================================================== properties
\* analyzeImagePose call a resolves (to a result or to null) in this step.
Resolves(a) ==
    \/ ImageLandmarkerInitSettles(a, FALSE)
    \/ ~cachedImageLandmarker /\ ImageLandmarkerPoll(a)
    \/ \E o \in ImageOutcomes : ImageSettles(a, o)

\* analyzeImagePose call a resolves to null in this step.
ResolvesNull(a) ==
    \/ ImageLandmarkerInitSettles(a, FALSE)
    \/ ~cachedImageLandmarker /\ ImageLandmarkerPoll(a)
    \/ \E o \in ImageOutcomes \ {"pose"} : ImageSettles(a, o)

\* Number of in-flight analyses of template t.
Pending(bag, t) ==
    BagCardinality([a \in {b \in BagToSet(bag) : b.template = t} |-> bag[a]])

\* C1: at any moment at most one template analysis is in flight, whatever
\* the sequence and timing of selections.
C1_AtMostOneAnalysisInFlight == BagCardinality(analyses) <= 1

\* C2: two requests for the same uncached template id cause at most one
\* detector invocation for it.  Stated through its consequence for a first
\* request that succeeds: once an id is cached (its detection ran and
\* succeeded), detect(img) does not run for that id again.
C2_NoDuplicateDetection ==
    [][\A a \in InFlight : \A o \in DetectOutcomes :
          ImageSettles(a, o) => a.template \notin DOMAIN templateAnalysisCache]_vars

\* C4: when the view has left the camera while a resolution started by a
\* selection is in flight, the result's arrival changes neither the selected
\* template, nor the template landmarks, nor the cache.
C4_ResultIgnoredAfterDeactivation ==
    [][\A a \in InFlight :
          (a.origin = "select" /\ view = "gallery" /\ Resolves(a))
          => UNCHANGED <<selectedTemplate, templateLandmarks,
                         templateAnalysisCache>>]_vars

C6_SelectionWhilePendingIgnored ==
    [][\A t \in Templates :
          (handleTemplateSelect(t) /\ \E a \in InFlight : a.template # t)
          => UNCHANGED <<selectedTemplate, selectedTemplateImage,
                         templateLandmarks, templateAnalysisCache, analyses>>]_vars

\* C7: when a resolution fails (analyzeImagePose resolves to null: detector
\* unavailable, image not loaded, no pose, detect threw) its continuation
\* completes normally, clearing isAnalyzingTemplate, stores no cache entry
\* and leaves the selected template with the pose it had; a later accepted
\* selection of an id that has no cache entry starts a new analysis of it.
C7_FailedResolution ==
    [][/\ \A a \in InFlight :
             ResolvesNull(a)
             => /\ templateAnalysisCache' = templateAnalysisCache
                /\ selectedTemplate' = selectedTemplate
                /\ isAnalyzingTemplate' = FALSE
                /\ analyses' = analyses (-) One(a)
       /\ \A t \in Templates \ DOMAIN templateAnalysisCache :
             (handleTemplateSelect(t) /\ ~isAnalyzingTemplate)
             => Pending(analyses', t) = Pending(analyses, t) + 1]_vars

\* C7 witness: with the mount timer still pending, an earlier analysis has
\* stored an entry and template landmarks; the analysis of t that followed
\* failed (the landmarks are null again, t has no entry, t kept its default
\* pose), and a further selection of t has its analysis in flight.
C7_Witness ==
    \E t \in Templates \ {InitialTemplateId} :
        /\ initialTimer = "pending"
        /\ DOMAIN templateAnalysisCache = {InitialTemplateId}
        /\ selectedTemplate = poseTemplates(t)
        /\ templateLandmarks = Null
        /\ isAnalyzingTemplate
        /\ Pending(analyses, t) = 1

\* C8: cache entries are never removed or altered while the process lives,
\* and an accepted selection of a cached id takes its pose and landmarks
\* from the cache and starts no analysis.
C8_CacheKeptAndUsed ==
    [][/\ \A t \in DOMAIN templateAnalysisCache :
             /\ t \in DOMAIN templateAnalysisCache'
             /\ templateAnalysisCache'[t] = templateAnalysisCache[t]
       /\ \A t \in DOMAIN templateAnalysisCache :
             (handleTemplateSelect(t) /\ ~isAnalyzingTemplate)
             => /\ analyses' = analyses
                /\ isAnalyzingTemplate' = FALSE
                /\ selectedTemplate'.id = t
                /\ selectedTemplate'.normalizedPose =
                      templateAnalysisCache[t].normalizedPose
                /\ templateLandmarks' = Some(templateAnalysisCache[t].landmarks)]_vars

\* C8 witness: every template is cached and the last call of
\* handleTemplateSelect took the cache branch, leaving its template selected
\* with the cached pose and landmarks and nothing in flight.
C8_Witness ==
    /\ DOMAIN templateAnalysisCache = Templates
    /\ lastSelect.path = "cached"
    /\ selectedTemplate =
         WithPose(poseTemplates(lastSelect.template),
                  AnalyzedPose(lastSelect.template))
    /\ templateLandmarks = Some(AnalysisResult(lastSelect.template).landmarks)
    /\ analyses = EmptyBag

\* C3: after the view has left the camera and come back, no guidance is
\* produced from a detection made before it left: guidance computed then is
\* none or comes from a detection made after the return.
C3_NoGuidanceFromStaleDetection ==
    [][(view' = "camera" /\ GuidanceDeps' # GuidanceDeps /\ guidance' # Null)
       => ~staleDetection']_vars

C10_ThrottledFrameDropped ==
    [][now' # now
       => /\ lastDetectAt' \in {lastDetectAt, Some(now')}
          /\ (now' - lastFrameTimeRef) * TARGET_FPS < MsPerSecond
             => /\ UNCHANGED <<lastFrameTimeRef, latestDetection, hasPerson,
                               lastDetectAt, guidance>>
                /\ Cardinality(rafQueue') = Cardinality(rafQueue)
                /\ \E cb \in rafQueue' : cb.id = animationFrameRef']_vars

\* C10 witness: the last detection ran more than one and less than two
\* intervals after the detection whose skeleton is current, so a frame in
\* between, inside the interval, was dropped, and the frame that followed
\* ran one detection, on its own time.
C10_Witness ==
    /\ latestDetection # Null
    /\ lastDetectAt # Null
    /\ lastFrameTimeRef = lastDetectAt[1]
    /\ now = lastDetectAt[1]
    /\ lastDetectAt[1] - latestDetection[1].timestamp > FrameMs
    /\ lastDetectAt[1] - latestDetection[1].timestamp < 2 * FrameMs
    /\ rafQueue # {}

\* C11: a detection that returns a pose replaces latestDetection and sets
\* hasPerson in the same step; a detection that returns no landmarks clears
\* hasPerson and leaves latestDetection as it was.
C11_DetectionApplied ==
    [][\A cb \in rafQueue : \A gap \in FrameGaps : \A r \in DetectorResults :
          (detectPose(cb, gap, 2, r) /\ lastDetectAt' # lastDetectAt)
          => /\ r.kind = "pose"
                => /\ latestDetection' =
                        Some([landmarks |-> r.pose, timestamp |-> now'])
                   /\ hasPerson'
             /\ r.kind = "none"
                => /\ ~hasPerson'
                   /\ latestDetection' = latestDetection]_vars

\* C11 witness: a skeleton has been replaced by a later one, and a detection
\* after that found nobody: the flag is down and the skeleton still there.
C11_Witness ==
    /\ skeletonReplaced
    /\ latestDetection # Null
    /\ ~hasPerson
    /\ lastDetectAt[1] > latestDetection[1].timestamp

\* C12: once the view has left the camera no frame callback stays
\* scheduled and none is scheduled again, and detectForVideo does not run
\* until the view is back.
C12_NoFrameWhileInactive ==
    [][view' # "camera"
       => /\ rafQueue' = {}
          /\ animationFrameRef' = 0
          /\ lastDetectAt' = lastDetectAt]_vars

\* C12 witness: the loop has run a detection and the view has then left the
\* camera.
C12_Witness ==
    /\ view = "gallery"
    /\ lastDetectAt # Null
    /\ landmarker
    /\ videoElement # Null
    /\ rafQueue = {}

\* C13: while the detector is initialising, and until a skeleton has been
\* detected and a video element is there, guidance is null.
C13_NoGuidanceWithoutInputs ==
    (isLoading \/ latestDetection = Null \/ videoElement = Null) => guidance = Null

\* C13 witness: the detector is up, the video is ready and detectForVideo
\* has run, but no skeleton has been found yet; guidance is null.
C13_Witness ==
    /\ landmarker
    /\ videoElement # Null
    /\ lastDetectAt # Null
    /\ latestDetection = Null
    /\ guidance = Null

\* C14: once the detector's initialisation has failed, error stays set, the
\* landmarker stays null, no frame is scheduled, detectForVideo never runs
\* and guidance stays null.
C14_InitFailureIsFinal ==
    [][/\ error => error'
       /\ error'
          => /\ ~landmarker'
             /\ ~isLoading'
             /\ rafQueue' = {}
             /\ lastDetectAt' = Null
             /\ latestDetection' = Null
             /\ guidance' = Null]_vars

\* C14 witness: the initialisation has failed and, after it, the camera has
\* come up, the gallery was visited and the view is back on a ready camera.
C14_Witness ==
    /\ error
    /\ view = "camera"
    /\ cameraStage = "ready"
    /\ videoElement # Null
    /\ videoElement # Some(1)

\* C15: guidance is what the guidance computation yields for the current
\* skeleton, the currently selected template and the current viewport size
\* (null when the skeleton or the video element is missing).
C15_GuidanceIsCurrent ==
    guidance =
        IF latestDetection = Null \/ videoElement = Null THEN Null
        ELSE Some(ComputeGuidance(latestDetection[1], selectedTemplate, viewportSize))

\* C15 witness: guidance is on display after the skeleton was replaced, a
\* template other than the initial one got its analysed pose, and the window
\* of a desktop device was resized to a narrow one.
C15_Witness ==
    /\ guidance # Null
    /\ skeletonReplaced
    /\ selectedTemplate.id # InitialTemplateId
    /\ selectedTemplate.normalizedPose.kind = "analyzed"
    /\ ~isMobile
    /\ viewportSize.width <= MobileMaxWidth

\* C16: detections are applied in the order they complete: the current
\* skeleton is never cleared and its timestamp never decreases.
C16_TimestampsMonotonic ==
    [][latestDetection # Null
       => /\ latestDetection' # Null
          /\ latestDetection'[1].timestamp >= latestDetection[1].timestamp]_vars

\* C16 witness: a skeleton has been replaced by the one detected in the
\* current frame.
C16_Witness ==
    /\ skeletonReplaced
    /\ latestDetection # Null
    /\ latestDetection[1].timestamp = now

\* C17: computeTilt returns an angle between 0 and 90 degrees, and 0 when
\* the two shoulders have the same y, whichever shoulder has the smaller x.
C17_TiltRange ==
    (call.fn = "computeTilt" /\ call.result # Null)
    => /\ call.result[1] >= 0
       /\ call.result[1] <= 90
       /\ call.args[1][LEFT_SHOULDER].y = call.args[1][RIGHT_SHOULDER].y
          => call.result[1] = 0

\* The positions in the keyLandmarks argument of the examined call whose
\* landmark the loop compared.
ComparedPositions ==
    {k \in 1..Len(call.args[3]) :
        Compared(call.args[1], call.args[2], call.args[3][k])}

\* The summed distance between live and template landmark over a set of
\* positions of the keyLandmarks argument.
RECURSIVE ErrorOver(_)
ErrorOver(positions) ==
    IF positions = {} THEN 0
    ELSE LET k == CHOOSE q \in positions : TRUE
             live == call.args[1].landmarks[call.args[3][k]]
             template == call.args[2].landmarks[call.args[3][k]]
         IN  Distance(live.x - template.x, live.y - template.y)
             + ErrorOver(positions \ {k})

\* keyLandmarkIndices without its k-th entry.
Without(keyLandmarkIndices, k) ==
    SubSeq(keyLandmarkIndices, 1, k - 1)
    \o SubSeq(keyLandmarkIndices, k + 1, Len(keyLandmarkIndices))

SameScore(a, b) == a.num * b.den = b.num * a.den

\* C18: computePoseMatch compares a key landmark if and only if the live
\* keypoint at that index has visibility above 0.5, and a landmark that is
\* not compared leaves the score as it is without it.
C18_ComparedIffVisible ==
    (call.fn = "computePoseMatch" /\ call.result # Null)
    => \A k \in 1..Len(call.args[3]) :
          LET live == call.args[1].landmarks[call.args[3][k]]
              visible == /\ live.visibility # Null
                         /\ live.visibility[1] > VisibilityThreshold
          IN  /\ (k \in ComparedPositions) <=> visible
              /\ ~visible
                 => SameScore(call.result[1],
                              computePoseMatch(call.args[1], call.args[2],
                                               Without(call.args[3], k)))

\* C19: the normalized pose of the selected template, be it the static
\* default or the result of an analysis, has a landmark at every index
\* listed in the template's keyLandmarks.
C19_PoseHasEveryKeyLandmark ==
    \A k \in 1..Len(KeyLandmarkIndices(selectedTemplate.id)) :
        KeyLandmarkIndices(selectedTemplate.id)[k]
            \in LandmarkSlots(selectedTemplate.normalizedPose)

ExpectedScaleTwice ==
    LET bodyHeight2 == BodyHeightTwice(call.args[1])
        shoulderHipDistance2 == ShoulderHipDistanceTwice(call.args[1])
    IN  IF bodyHeight2 # 0 THEN bodyHeight2
        ELSE IF shoulderHipDistance2 # 0 THEN shoulderHipDistance2
        ELSE 2

\* Both measurements of the body's size are zero.
FullyDegenerate(landmarks) ==
    BodyHeightTwice(landmarks) = 0 /\ ShoulderHipDistanceTwice(landmarks) = 0

\* Two quotients with the same value.
SameValue(a, b) == a.den # 0 /\ b.den # 0 /\ a.num * b.den = b.num * a.den

\* C21: normalizePose hands every keypoint's visibility on unchanged, and
\* for every keypoint that has a depth, a depth of 0 included, the output
\* depth is z divided by the scale, with no translation.
C21_VisibilityAndDepth ==
    (call.fn = "normalizePose" /\ call.result # Null)
    => \A i \in LandmarkIndices :
          LET lm == call.args[1][i]
              out == call.result[1].landmarks[i]
          IN  /\ out.visibility = lm.visibility
              /\ lm.z # Null
                 => /\ out.z # Null
                    /\ SameValue(out.z[1], Quotient(2 * lm.z[1], ExpectedScaleTwice))

\* C22: in the output of normalizePose the midpoint of LEFT_HIP and
\* RIGHT_HIP is (0,0), and the pose reports center (0,0) and scale 1.
C22_HipMidpointAtOrigin ==
    (call.fn = "normalizePose" /\ call.result # Null)
    => LET out == call.result[1]
           leftHip == out.landmarks[LEFT_HIP]
           rightHip == out.landmarks[RIGHT_HIP]
       IN  /\ leftHip.x.den # 0 /\ rightHip.x.den # 0
           /\ leftHip.y.den # 0 /\ rightHip.y.den # 0
           /\ leftHip.x.num * rightHip.x.den + rightHip.x.num * leftHip.x.den = 0
           /\ leftHip.y.num * rightHip.y.den + rightHip.y.num * leftHip.y.den = 0
           /\ out.center = [x |-> 0, y |-> 0]
           /\ out.scale = 1

\* C22 witness: normalizePose has returned for a skeleton whose hips are
\* apart and whose hip midpoint is away from the origin.
C22_Witness ==
    /\ call.fn = "normalizePose"
    /\ call.result # Null
    /\ call.args[1][LEFT_HIP] # call.args[1][RIGHT_HIP]
    /\ HipSum(call.args[1]).x > 0
    /\ call.result[1].landmarks[LEFT_HIP].x.num # 0

\* C23: normalizePose never divides by zero: every output coordinate is the
\* input minus the hip midpoint, divided by a scale that is the
\* nose-to-ankle-midpoint distance if not zero, else the
\* shoulder-midpoint-to-hip-center distance if not zero, else 1; for a
\* fully degenerate skeleton it is the input minus the hip midpoint.
C23_ScaleNeverZero ==
    (call.fn = "normalizePose" /\ call.result # Null)
    => \A i \in LandmarkIndices :
          LET lm == call.args[1][i]
              out == call.result[1].landmarks[i]
              center2 == HipSum(call.args[1])
          IN  /\ out.x.den # 0
              /\ out.y.den # 0
              /\ SameValue(out.x, Quotient(2 * lm.x - center2.x, ExpectedScaleTwice))
              /\ SameValue(out.y, Quotient(2 * lm.y - center2.y, ExpectedScaleTwice))
              /\ FullyDegenerate(call.args[1])
                 => /\ 2 * out.x.num = (2 * lm.x - center2.x) * out.x.den
                    /\ 2 * out.y.num = (2 * lm.y - center2.y) * out.y.den

\* C23 witness: normalizePose has returned for a fully degenerate skeleton
\* whose nose is away from the hip midpoint.
C23_Witness ==
    /\ call.fn = "normalizePose"
    /\ call.result # Null
    /\ FullyDegenerate(call.args[1])
    /\ call.result[1].landmarks[NOSE].x.num # 0
    /\ call.result[1].landmarks[NOSE].x.den # 0

\* The skeleton k * S + t.
Transformed(landmarks, k, t) ==
    [i \in DOMAIN landmarks |->
        [landmarks[i] EXCEPT !.x = k * @ + t[1], !.y = k * @ + t[2]]]

ScaleFactors == {1, 2}
Translations == {<<0, 0>>, <<7, -3>>}

\* Two normalized poses with every landmark at the same position.
SamePositions(a, b) ==
    \A i \in DOMAIN a.landmarks :
        /\ SameValue(a.landmarks[i].x, b.landmarks[i].x)
        /\ SameValue(a.landmarks[i].y, b.landmarks[i].y)

\* C24, as claimed: for every skeleton S, translation t and scale factor
\* k > 0, normalizePose(k * S + t) has the landmark positions of
\* normalizePose(S).
C24_ScaleAndPositionInvariant ==
    (call.fn = "normalizePose" /\ call.result # Null)
    => \A k \in ScaleFactors, t \in Translations :
          SamePositions(normalizePose(Transformed(call.args[1], k, t)),
                        call.result[1])

\* C24, amended: the same for every skeleton S that is not fully
\* degenerate; for every skeleton, normalizePose(S + t) has the landmark
\* positions of normalizePose(S).
C24_InvariantUnlessDegenerate ==
    (call.fn = "normalizePose" /\ call.result # Null)
    => \A k \in ScaleFactors, t \in Translations :
          (k = 1 \/ ~FullyDegenerate(call.args[1]))
          => SamePositions(normalizePose(Transformed(call.args[1], k, t)),
                           call.result[1])

\* C24 witness: normalizePose has returned for a skeleton whose body height
\* is zero and whose shoulders are away from the hips, with the nose away
\* from the hip midpoint.
C24_Witness ==
    /\ call.fn = "normalizePose"
    /\ call.result # Null
    /\ BodyHeightTwice(call.args[1]) = 0
    /\ ShoulderHipDistanceTwice(call.args[1]) # 0
    /\ call.result[1].landmarks[NOSE].x.num # 0

\* a <= b for quotients over the same positive den.
AtMost(a, b) == a.den = b.den /\ a.den > 0 /\ a.num <= b.num

\* C25: for every skeleton and positive viewport width, computeCenterOffset
\* lies in [-1, 1], does not decrease when the hip midpoint moves to the
\* right, and is 0 when the hip midpoint is at x = 0.5.
C25_CenterOffset ==
    (call.fn = "computeCenterOffset" /\ call.result # Null)
    => LET offset == call.result[1]
           hipSumX == HipSum(call.args[1]).x
       IN  /\ offset.den > 0
           /\ -offset.den <= offset.num
           /\ offset.num <= offset.den
           /\ hipSumX = 100 => offset.num = 0
           /\ \A other \in CenterSkeletons :
                 hipSumX <= HipSum(other).x
                 => AtMost(offset, computeCenterOffset(other, call.args[2]))

\* C25 witness: computeCenterOffset has returned 1 for a skeleton whose hip
\* midpoint lies beyond the right edge of the image.
C25_Witness ==
    /\ call.fn = "computeCenterOffset"
    /\ call.result # Null
    /\ HipSum(call.args[1]).x > 200
    /\ call.result[1].num = call.result[1].den

ShouldersSwapped(landmarks) ==
    [landmarks EXCEPT ![LEFT_SHOULDER].y = landmarks[RIGHT_SHOULDER].y,
                      ![RIGHT_SHOULDER].y = landmarks[LEFT_SHOULDER].y]

\* C27: computeTilt gives the same result when the vertical difference
\* between the shoulders is negated, and shoulders on a line at 45 degrees
\* give 45 whichever shoulder is the higher one.
C27_TiltSignIndependent ==
    (call.fn = "computeTilt" /\ call.result # Null)
    => LET dx == call.args[1][RIGHT_SHOULDER].x - call.args[1][LEFT_SHOULDER].x
           dy == call.args[1][RIGHT_SHOULDER].y - call.args[1][LEFT_SHOULDER].y
       IN  /\ computeTilt(ShouldersSwapped(call.args[1])) = call.result[1]
           /\ (dx # 0 /\ Abs(dy) = Abs(dx)) => call.result[1] = 45

\* C28: when a directional message is shown, a positive centerOffset
\* (subject right of center) is answered with "move left" and a negative
\* one with "move right", both in App's message and in the HUD's hint.
C28_DirectionOpposesOffset ==
    (call.fn \in {"getGuidanceMessage", "hintText"}
        /\ call.result # Null /\ call.result[1] # Null)
    => LET offset == call.args[1][1].centerOffset
           text == call.result[1][1]
           left == IF call.fn = "hintText" THEN "Move left" ELSE "Move left."
           right == IF call.fn = "hintText" THEN "Move right" ELSE "Move right."
       IN  text \in {left, right}
           => /\ offset.num > 0 => text = left
              /\ offset.num < 0 => text = right

\* C29: the poseMatch in the metadata of a photo, saved or being saved, is
\* the poseMatch of the guidance that was current when the shutter was
\* pressed, and absent if there was no guidance then.
C29_PoseMatchAtTrigger ==
    /\ \A i \in 1..Len(photos) : photos[i].meta.poseMatch = photos[i].atTrigger
    /\ (capture # Null /\ capture[1].photo # Null)
       => capture[1].photo[1].meta.poseMatch = capture[1].atTrigger

\* C29 witness: a photo has been saved whose poseMatch came from a skeleton
\* and a template that both differ from the current guidance's.
C29_Witness ==
    /\ Len(photos) > 0
    /\ photos[1].meta.poseMatch # Null
    /\ guidance # Null
    /\ photos[1].meta.poseMatch[1][1] # guidance[1].poseMatch[1]
    /\ photos[1].meta.poseMatch[1][2] # guidance[1].poseMatch[2]
    /\ photos[1].meta.poseTemplate # selectedTemplate.id

\* C30: the id of the selected template changes only in a step of
\* handleTemplateSelect, never when an analysis completes (that of the
\* initial template included), and the selected template image is always
\* the image of the selected template.
C30_SelectionChangesOnlyBySelecting ==
    [][/\ selectedTemplate'.id # selectedTemplate.id
          => \E t \in Templates : handleTemplateSelect(t)
       /\ selectedTemplateImage' = Some(ImagePath(selectedTemplate'.id))]_vars

\* C31: at most one detectPose callback is scheduled at any time, whatever
\* the order of view changes, the detector becoming ready and video elements
\* being reported.
C31_AtMostOneFrameScheduled ==
    /\ Cardinality(rafQueue) <= 1
    /\ \A cb \in rafQueue : cb.id = animationFrameRef

\* C31 witness: the loop has run a detection, was restarted with the old
\* video element when the view came back to the camera, and was restarted
\* again when the new CameraView reported its element; one callback is
\* scheduled, for the new element.
C31_Witness ==
    /\ view = "camera"
    /\ lastDetectAt # Null
    /\ videoElement # Null
    /\ videoElement # Some(1)
    /\ Cardinality(rafQueue) = 1
    /\ \A cb \in rafQueue : cb.videoElement = videoElement

\* The number of getImageLandmarker calls in a bag of analyses that are
\* running the initialisation themselves.
Initializations(bag) ==
    LET running == {a \in BagToSet(bag) : a.pc = "init"}
    IN  IF running = {} THEN 0
        ELSE IF Cardinality(running) = 1
             THEN CopiesIn(CHOOSE a \in running : TRUE, bag)
             ELSE 2

\* C32: at most one initialisation of the image landmarker is in progress at
\* any time; once an instance is cached it stays cached, every later
\* getImageLandmarker call gets it (the call goes on to load its image), and
\* no initialisation is started again.
C32_OneImageLandmarkerInit ==
    [][/\ Initializations(analyses') <= 1
       /\ cachedImageLandmarker
          => /\ cachedImageLandmarker'
             /\ Initializations(analyses') = 0
             /\ \A a \in BagToSet(analyses') :
                   CopiesIn(a, analyses') > CopiesIn(a, analyses)
                   => a.pc = "loadImage"]_vars

\* C32 witness: two getImageLandmarker calls are pending at once, one
\* running the initialisation and one waiting for it.
C32_Witness ==
    /\ Initializations(analyses) = 1
    /\ \E a \in InFlight : a.pc = "poll"
    /\ ~cachedImageLandmarker
    /\ isInitializingLandmarker

\* While an analysis is in flight, isAnalyzingTemplate is true.
AnalyzingWhileInFlight == analyses # EmptyBag => isAnalyzingTemplate

\* Once set, isAnalyzingTemplate becomes false again.
FlagEventuallyCleared == isAnalyzingTemplate ~> ~isAnalyzingTemplate

\* C33: template selection is never blocked forever: when analyses settle,
\* isAnalyzingTemplate becomes false again after it was set, whatever the
\* outcome of the analysis; and isAnalyzingTemplate is true for as long as
\* any template analysis is in flight.
C33_FlagFollowsAnalyses ==
    /\ FlagEventuallyCleared
    /\ []AnalyzingWhileInFlight

\* C34: analyzeImagePose never rejects.  It resolves to null when the
\* landmarker is unavailable, the image fails to load, the load times out,
\* the detector throws or no pose is found; only when a pose is found does it
\* resolve to the raw landmarks together with normalizePose of them.
C34_AnalyzeNeverRejects ==
    (call.fn = "analyzeImagePose" /\ call.result # Null)
    => LET poseLandmarker == call.args[1]
           load == call.args[2]
           detection == call.args[3]
           settled == call.result[1]
           found == /\ poseLandmarker = "instance"
                    /\ load = "loaded"
                    /\ detection.kind = "pose"
       IN  /\ settled.state = "fulfilled"
           /\ ~found => settled.value = Null
           /\ found =>
                settled.value =
                   Some([landmarks |-> detection.landmarks,
                         normalizedPose |-> normalizePose(detection.landmarks)])

\* C34 witness: the detector threw on a loaded image and the promise has
\* settled.
C34_Witness ==
    /\ call.fn = "analyzeImagePose"
    /\ call.args[1] = "instance"
    /\ call.args[2] = "loaded"
    /\ call.args[3].kind = "throws"
    /\ call.result # Null

\* A tick of the loop in which detectForVideo is invoked and throws: the
\* scheduled callback cb runs with a landmarker and a video element, while
\* active, past the throttle, on a video that has data.
ThrowingTick(cb) ==
    /\ cb \in rafQueue
    /\ cb.landmarker
    /\ cb.videoElement # Null
    /\ cb.isActive
    /\ \E gap \in FrameGaps :
          /\ ~BelowFrameInterval(now + gap - lastFrameTimeRef)
          /\ detectPose(cb, gap, 2, [kind |-> "throws", pose |-> 0])

\* C35: when the detector throws during a tick, the tick leaves the skeleton
\* and the person-present flag as they were, and the next tick is scheduled.
C35_DetectorErrorAbsorbed ==
    [][\A cb \in rafQueue :
          ThrowingTick(cb)
          => /\ UNCHANGED <<latestDetection, hasPerson>>
             /\ \E next \in rafQueue' :
                   /\ next.id = animationFrameRef'
                   /\ next \notin rafQueue \ {cb}]_vars

\* C35 witness: a skeleton is shown with a person present, and the detector
\* has since been invoked without either changing: that invocation threw, and
\* a tick is scheduled.
C35_Witness ==
    /\ hasPerson
    /\ latestDetection # Null
    /\ lastDetectAt # Null
    /\ latestDetection[1].timestamp < lastDetectAt[1]
    /\ lastFrameTimeRef = lastDetectAt[1]
    /\ \E cb \in rafQueue : cb.id = animationFrameRef

\* The messages of the priority level that applies to a guidance value.
MessagesFor(gd) ==
    IF gd.distance = "too-close" THEN {"Too close."}
    ELSE IF gd.distance = "too-far" THEN {"Step forward."}
    ELSE IF Exceeds(gd.centerOffset, OffsetThreshold)
         THEN {"Move left.", "Move right."}
    ELSE IF gd.tilt > TiltThreshold THEN {"Still crooked."}
    ELSE IF gd.poseMatch.num * 100 > MatchThreshold * gd.poseMatch.den
         THEN {"Now we're talking."}
    ELSE {"Align with the outline."}

\* C36: for a guidance value getGuidanceMessage returns one message, chosen
\* by priority: the distance when it is not good, then a direction when
\* |centerOffset| > 0.15, then the tilt when it is over 5 degrees, then the
\* match when poseMatch > 0.7, else the align message.  With both hips at
\* x = 0.5 the centerOffset is 0 and the message is not a direction.
C36_MessageByPriority ==
    /\ (call.fn = "getGuidanceMessage" /\ call.result # Null
           /\ call.args[1] # Null)
       => /\ call.result[1] # Null
          /\ call.result[1][1] \in MessagesFor(call.args[1][1])
    /\ (call.fn = "guidanceMessage" /\ call.result # Null)
       => LET built == GuidanceOf(call.args[1], call.args[2], call.args[3])
          IN  /\ call.result[1] # Null
              /\ call.result[1][1] \in MessagesFor(built)
              /\ (call.args[1][LEFT_HIP].x = 50 /\ call.args[1][RIGHT_HIP].x = 50)
                 => /\ built.centerOffset.num = 0
                    /\ call.result[1][1] \notin {"Move left.", "Move right."}

\* C36 witness: a guidance value with a good distance, a center offset of
\* exactly 0.15, a tilt over 5 degrees and a poseMatch over 0.7 got the tilt
\* message.
C36_Witness ==
    /\ call.fn = "getGuidanceMessage"
    /\ call.args[1] # Null
    /\ call.args[1][1].distance = "good"
    /\ call.args[1][1].centerOffset = Quotient(15, 100)
    /\ call.args[1][1].tilt > TiltThreshold
    /\ call.args[1][1].poseMatch = Quotient(100, 100)
    /\ call.result = Some(Some("Still crooked."))

\* A centered subject: both hips at x = 0.5, distance good, and the message
\* rendered is about the tilt.
C36_CenteredWitness ==
    /\ call.fn = "guidanceMessage"
    /\ call.args[1][LEFT_HIP].x = 50
    /\ call.args[1][RIGHT_HIP].x = 50
    /\ call.args[3].distance = "good"
    /\ call.result = Some(Some("Still crooked."))

\* Once set, isCapturing becomes false again.
CaptureEventuallyEnds == isCapturing ~> ~isCapturing

\* No capture starts while isCapturing is set.
NoCaptureWhileCapturing ==
    [][isCapturing => \A outcome \in DrawOutcomes : ~handleCapture(outcome)]_vars

\* While isCapturing is set, a step of the capture is pending that will
\* clear it.
CapturingHasPendingStep == isCapturing => capture # Null

\* C37: every capture attempt eventually resets isCapturing to false,
\* whatever its outcome (no canvas context, null blob, successful save,
\* failed save, thrown error), and no second capture starts while one is in
\* progress.
C37_CaptureAlwaysEnds ==
    /\ CaptureEventuallyEnds
    /\ NoCaptureWhileCapturing

====
